---- MODULE Spec2Model ----
(***************************************************************************)
(* A model of dm_env: the TimeStep helpers and StepType predicates         *)
(* (_environment.py), the AutoResetEnvironment wrapper                     *)
(* (auto_reset_environment.py), the FakeEnvironment of its test, the       *)
(* Environment context manager, and the array specs (specs.py).            *)
(*                                                                         *)
(* Python values are modelled as records tagged with their type, so that   *)
(* None is a value distinct from every number.  Floats are modelled by the *)
(* integers they denote (0.0 is 0, 1.0 is 1).                              *)
(***************************************************************************)
EXTENDS Integers, Sequences, FiniteSets, TLC

VARIABLES
  reset_next_step,  \* AutoResetEnvironment._reset_next_step
  steps_taken,      \* the subclass's episode state (FakeEnvironment._steps_taken)
  step_limit,       \* FakeEnvironment._step_limit
  last_action,      \* the action last consumed by the subclass's _step
  call,             \* the most recent public call and what it returned
  trace,            \* the public reset/step calls so far, with the marker each returned
  with_pc,          \* position of the caller in a with-statement
  close_calls,      \* number of times close() has run
  ctor,             \* arguments of the spec constructor call
  spec,             \* the array spec under construction / constructed
  value,            \* a value handed to validate
  result,           \* the outcome of the last spec operation
  mock,             \* the MockEnvironment under test (test_utils_test.py)
  test              \* the frame of the EnvironmentTestMixin test method being run

envVars  == <<reset_next_step, steps_taken, step_limit, last_action, trace,
              with_pc, close_calls>>
specVars == <<ctor, spec, value, result>>
harnessVars == <<mock, test>>
vars     == <<reset_next_step, steps_taken, step_limit, last_action, call, trace,
              with_pc, close_calls, ctor, spec, value, result, mock, test>>

----------------------------------------------------------------------------
(* Bounds of the model *)

\* public reset/step calls explored on an AutoResetEnvironment
MaxCalls == 6
\* public reset/step calls explored on the FakeEnvironment
MaxFakeCalls == 10
\* largest step_limit given to FakeEnvironment
MaxStepLimit == 5
\* rewards, observations and explicit discounts range over 0..MaxValue
MaxValue == 3
\* actions range over 0..MaxAction
MaxAction == 1

----------------------------------------------------------------------------
(* Python values *)

PyNone     == [py |-> "None"]
PyNum(n)   == [py |-> "num", val |-> n]
\* an argument left out of a call, so that the parameter's default applies
Omitted    == [py |-> "omitted"]
Default(arg, dflt) == IF arg = Omitted THEN dflt ELSE arg

Rewards      == {PyNum(n) : n \in 0..MaxValue}
Observations == {PyNum(n) : n \in 0..MaxValue}
Discounts    == {PyNum(n) : n \in 0..MaxValue}
Actions      == {PyNum(n) : n \in 0..MaxAction}

----------------------------------------------------------------------------
(* _environment.py: StepType, TimeStep and the helper constructors *)

FIRST == 0
MID   == 1
LAST  == 2
StepType == {FIRST, MID, LAST}

\* StepType.first / mid / last: identity with the enum member
StepType_first(s) == s = FIRST
StepType_mid_Mutant(s) == s # FIRST
StepType_mid(s)   == s = MID
StepType_last(s)  == s = LAST

TimeStep(step_type, reward, discount, observation) ==
  [step_type |-> step_type, reward |-> reward, discount |-> discount,
   observation |-> observation]

\* TimeStep.first / mid / last: equality of the step_type field with the member
TimeStep_first(ts) == ts.step_type = FIRST
TimeStep_mid(ts)   == ts.step_type = MID
TimeStep_last(ts)  == ts.step_type = LAST

restart_Mutant(observation) == TimeStep(FIRST, PyNum(0), PyNone, observation)
restart(observation) == TimeStep(FIRST, PyNone, PyNone, observation)

transition(reward, observation, discount) ==
  TimeStep(MID, reward, Default(discount, PyNum(1)), observation)

termination_Mutant(reward, observation) == TimeStep(LAST, reward, PyNum(1), observation)
termination(reward, observation) == TimeStep(LAST, reward, PyNum(0), observation)

truncation(reward, observation, discount) ==
  TimeStep(LAST, reward, Default(discount, PyNum(1)), observation)

----------------------------------------------------------------------------
(* auto_reset_environment.py: AutoResetEnvironment and its subclasses.     *)
(* An environment object is a record of its fields; cls names its class,   *)
(* which decides the _reset/_step hooks a call dispatches to.  Every       *)
(* method maps the object to an outcome: the object afterwards, the value  *)
(* returned and the hooks it invoked, in order.                            *)

Outcome(e, ret, hooks) == [ret |-> ret, hooks |-> hooks, env |-> e]

\* a constructor that leaves no reset pending
AutoResetEnvironment_init_Mutant(cls, limit) ==
  [reset_next_step |-> FALSE, steps_taken |-> 0, step_limit |-> limit,
   last_action |-> PyNone, cls |-> cls]

\* AutoResetEnvironment.__init__ (and FakeEnvironment.__init__ on top of it)
AutoResetEnvironment_init(cls, limit) ==
  [reset_next_step |-> TRUE, steps_taken |-> 0, step_limit |-> limit,
   last_action |-> PyNone, cls |-> cls]

\* FakeEnvironment._reset
FakeEnvironment_reset(e) ==
  Outcome([e EXCEPT !.steps_taken = 0], restart(PyNum(0)), <<"_reset">>)

\* FakeEnvironment._step: the action is not read
FakeEnvironment_step_Mutant(e, action) ==
  LET e1 == [e EXCEPT !.steps_taken = @ + 1]
  IN  IF e1.steps_taken <= e1.step_limit
        THEN Outcome(e1, transition(PyNum(0), PyNum(0), Omitted), <<"_step">>)
        ELSE Outcome(e1, termination(PyNum(0), PyNum(0)), <<"_step">>)
FakeEnvironment_step(e, action) ==
  LET e1 == [e EXCEPT !.steps_taken = @ + 1]
  IN  IF e1.steps_taken < e1.step_limit
        THEN Outcome(e1, transition(PyNum(0), PyNum(0), Omitted), <<"_step">>)
        ELSE Outcome(e1, termination(PyNum(0), PyNum(0)), <<"_step">>)

\* An arbitrary subclass honouring the documented hook contract: _reset
\* starts an episode and returns a FIRST TimeStep built by restart;
\* _step consumes the action and returns the MID or LAST TimeStep `out`
\* of the subclass's choosing.
Subclass_reset(e) ==
  Outcome([e EXCEPT !.steps_taken = 0], restart(PyNum(0)), <<"_reset">>)

Subclass_step(e, action, out) ==
  Outcome([e EXCEPT !.steps_taken = @ + 1, !.last_action = action], out, <<"_step">>)

\* A subclass whose hooks fail: a raise leaves the hook with the exception in
\* place of a TimeStep.  A call ends by returning ret or, when ret is an
\* exception, by raising it.
Exception(hook) == [py |-> "exception", val |-> hook]
IsException(v)  == "py" \in DOMAIN v /\ v.py = "exception"

RaisingSubclass_reset(e) == Outcome(e, Exception("_reset"), <<"_reset">>)

RaisingSubclass_step(e, action) == Outcome(e, Exception("_step"), <<"_step">>)

\* what an arbitrary subclass's _step may return
StepOutcomes ==
  {transition(PyNum(0), PyNum(0), Omitted), termination(PyNum(0), PyNum(0)),
   truncation(PyNum(0), PyNum(0), Omitted)}

\* dynamic dispatch of the abstract hooks
_reset(e) ==
  IF e.cls = "FakeEnvironment" THEN FakeEnvironment_reset(e)
  ELSE IF e.cls = "RaisingSubclass" THEN RaisingSubclass_reset(e)
  ELSE Subclass_reset(e)

_step(e, action, out) ==
  IF e.cls = "FakeEnvironment" THEN FakeEnvironment_step(e, action)
  ELSE IF e.cls = "RaisingSubclass" THEN RaisingSubclass_step(e, action)
  ELSE Subclass_step(e, action, out)

\* AutoResetEnvironment.reset
reset_Mutant(e) == _reset(e)
reset(e) == _reset([e EXCEPT !.reset_next_step = FALSE])

\* AutoResetEnvironment.step
step_Mutant(e, action, out) ==
  LET r == _step(e, action, out)
  IN  Outcome([r.env EXCEPT !.reset_next_step = TimeStep_last(r.ret)], r.ret, r.hooks)
step_AlwaysPending(e, action, out) ==
  IF e.reset_next_step THEN reset(e)
  ELSE LET r == _step(e, action, out)
       IN  Outcome([r.env EXCEPT !.reset_next_step = TRUE], r.ret, r.hooks)
step_NoReturn(e, action, out) ==
  LET r0 == IF e.reset_next_step THEN reset(e) ELSE Outcome(e, PyNone, <<>>)
      r  == _step(r0.env, action, out)
  IN  Outcome([r.env EXCEPT !.reset_next_step = TimeStep_last(r.ret)],
              r.ret, r0.hooks \o r.hooks)
step_RaiseSetsPending(e, action, out) ==
  IF e.reset_next_step THEN reset(e)
  ELSE LET r == _step(e, action, out)
       IN  IF IsException(r.ret)
             THEN Outcome([r.env EXCEPT !.reset_next_step = TRUE], r.ret, r.hooks)
             ELSE Outcome([r.env EXCEPT !.reset_next_step = TimeStep_last(r.ret)],
                          r.ret, r.hooks)
\* an exception raised by _step leaves step before the flag is assigned
step(e, action, out) ==
  IF e.reset_next_step THEN reset(e)
  ELSE LET r == _step(e, action, out)
       IN  IF IsException(r.ret) THEN r
           ELSE Outcome([r.env EXCEPT !.reset_next_step = TimeStep_last(r.ret)],
                        r.ret, r.hooks)

----------------------------------------------------------------------------
(* The environment object held in the variables, and a caller driving it *)

Self(cls) ==
  [reset_next_step |-> reset_next_step, steps_taken |-> steps_taken,
   step_limit |-> step_limit, last_action |-> last_action, cls |-> cls]

\* the record of a public call: the object before it, the hooks it invoked,
\* what it returned; for the end of a with-block, whether the block raised
\* and whether that exception reached the caller
CallRecord(op, action, before, r, raised, propagated) ==
  [ret |-> r.ret, hooks |-> r.hooks, action |-> action, op |-> op,
   before |-> before, raised |-> raised, propagated |-> propagated]

\* store the object a call leaves behind
Store(r) ==
  /\ reset_next_step' = r.env.reset_next_step
  /\ steps_taken' = r.env.steps_taken
  /\ step_limit' = r.env.step_limit
  /\ last_action' = r.env.last_action

Install(op, action, before, r) ==
  /\ Store(r)
  /\ call' = CallRecord(op, action, before, r, FALSE, FALSE)

Record(op, r) == trace' = Append(trace, [step_type |-> r.ret.step_type, op |-> op])

NoCall == CallRecord("none", PyNone, PyNone, Outcome(PyNone, PyNone, <<>>), FALSE, FALSE)

\* no MockEnvironment has been made and no test method is running
NoHarness == mock = PyNone /\ test = PyNone

NoSpecState ==
  /\ ctor = PyNone /\ spec = PyNone /\ value = PyNone /\ result = PyNone
  /\ NoHarness

InitEnv(cls, limit) ==
  LET e == AutoResetEnvironment_init(cls, limit)
  IN  /\ reset_next_step = e.reset_next_step
      /\ steps_taken = e.steps_taken
      /\ step_limit = e.step_limit
      /\ last_action = e.last_action
      /\ call = NoCall
      /\ trace = <<>>
      /\ with_pc = "before"
      /\ close_calls = 0

(* Spec: any caller of an AutoResetEnvironment with an arbitrary subclass *)

Init == InitEnv("Subclass", 0) /\ NoSpecState

CallReset ==
  /\ Len(trace) < MaxCalls
  /\ LET r == reset(Self("Subclass"))
     IN  Install("reset", PyNone, Self("Subclass"), r) /\ Record("reset", r)
  /\ UNCHANGED <<with_pc, close_calls>> /\ UNCHANGED specVars /\ UNCHANGED harnessVars

CallStep ==
  /\ Len(trace) < MaxCalls
  /\ \E action \in Actions, out \in StepOutcomes :
       LET r == step(Self("Subclass"), action, out)
       IN  Install("step", action, Self("Subclass"), r) /\ Record("step", r)
  /\ UNCHANGED <<with_pc, close_calls>> /\ UNCHANGED specVars /\ UNCHANGED harnessVars

Next == CallReset \/ CallStep

Spec == Init /\ [][Next]_vars

(* SpecFake: any caller of FakeEnvironment(step_limit) *)

InitFake == (\E k \in 1..MaxStepLimit : InitEnv("FakeEnvironment", k)) /\ NoSpecState

FakeReset ==
  /\ Len(trace) < MaxFakeCalls
  /\ LET r == reset(Self("FakeEnvironment"))
     IN  Install("reset", PyNone, Self("FakeEnvironment"), r) /\ Record("reset", r)
  /\ UNCHANGED <<with_pc, close_calls>> /\ UNCHANGED specVars /\ UNCHANGED harnessVars

FakeStep ==
  /\ Len(trace) < MaxFakeCalls
  /\ \E action \in Actions :
       LET r == step(Self("FakeEnvironment"), action, PyNone)
       IN  Install("step", action, Self("FakeEnvironment"), r) /\ Record("step", r)
  /\ UNCHANGED <<with_pc, close_calls>> /\ UNCHANGED specVars /\ UNCHANGED harnessVars

NextFake == FakeReset \/ FakeStep

SpecFake == InitFake /\ [][NextFake]_vars

(* SpecRaising: any caller of an AutoResetEnvironment whose hooks may raise. *)
(* Whether a hook raises is the subclass's affair: each call goes either to  *)
(* the hooks that return or to those that raise.  The caller catches the     *)
(* exception and goes on using the environment.                              *)

HookClasses == {"Subclass", "RaisingSubclass"}

\* the marker a call returned, or NoMarker when it raised
NoMarker == 0 - 1
Marker(ret) == IF IsException(ret) THEN NoMarker ELSE ret.step_type

InstallRaising(op, action, before, r) ==
  /\ Store(r)
  /\ call' = CallRecord(op, action, before, r, IsException(r.ret), IsException(r.ret))
  /\ trace' = Append(trace, [step_type |-> Marker(r.ret), op |-> op])

RaisingReset ==
  /\ Len(trace) < MaxCalls
  /\ \E c \in HookClasses :
       InstallRaising("reset", PyNone, Self(c), reset(Self(c)))
  /\ UNCHANGED <<with_pc, close_calls>> /\ UNCHANGED specVars /\ UNCHANGED harnessVars

RaisingStep ==
  /\ Len(trace) < MaxCalls
  /\ \E c \in HookClasses, action \in Actions, out \in StepOutcomes :
       InstallRaising("step", action, Self(c), step(Self(c), action, out))
  /\ UNCHANGED <<with_pc, close_calls>> /\ UNCHANGED specVars /\ UNCHANGED harnessVars

NextRaising == RaisingReset \/ RaisingStep

SpecRaising == Init /\ [][NextRaising]_vars

----------------------------------------------------------------------------
(* _environment.py: Environment.close and the context-manager protocol *)

\* Environment.close: the base class releases nothing
Environment_close(e) == Outcome(e, PyNone, <<"close">>)

\* Environment.__enter__
Environment_enter(e) == Outcome(e, e, <<>>)

\* Environment.__exit__: drops the exception details, closes, returns None
Environment_exit_Mutant(e, exc) == Outcome(e, PyNone, <<>>)
Environment_exit(e, exc) ==
  LET r == Environment_close(e) IN Outcome(r.env, PyNone, r.hooks)

\* truth value of what __exit__ returns: a true value suppresses the exception
Truthy(v) == v # PyNone /\ v # PyNum(0)

\* number of close() invocations among the hooks of a call
Closes(hooks) == Cardinality({i \in 1..Len(hooks) : hooks[i] = "close"})

(* SpecWith: a caller using the environment in a with-statement, calling   *)
(* reset/step/close at will; the block ends normally or by an exception.   *)

\* direct close() calls explored
MaxCloses == 2

WithEnter ==
  /\ with_pc = "before"
  /\ with_pc' = "inside"
  /\ LET r == Environment_enter(Self("Subclass"))
     IN  Install("__enter__", PyNone, Self("Subclass"), r)
  /\ UNCHANGED <<trace, close_calls>> /\ UNCHANGED specVars /\ UNCHANGED harnessVars

\* the block is left, normally or by an exception raised in it; the
\* exception reaches the caller unless __exit__ returns a true value
WithExit ==
  /\ with_pc = "inside"
  /\ with_pc' = "after"
  /\ \E raised \in BOOLEAN :
       LET exc == IF raised THEN [py |-> "exception"] ELSE PyNone
           r   == Environment_exit(Self("Subclass"), exc)
       IN  /\ Store(r)
           /\ call' = CallRecord("__exit__", exc, Self("Subclass"), r, raised,
                                 raised /\ ~Truthy(r.ret))
           /\ close_calls' = close_calls + Closes(r.hooks)
  /\ UNCHANGED trace /\ UNCHANGED specVars /\ UNCHANGED harnessVars

\* close() called directly
CallClose ==
  /\ close_calls < MaxCloses
  /\ LET r == Environment_close(Self("Subclass"))
     IN  /\ Install("close", PyNone, Self("Subclass"), r)
         /\ close_calls' = close_calls + Closes(r.hooks)
  /\ UNCHANGED <<trace, with_pc>> /\ UNCHANGED specVars /\ UNCHANGED harnessVars

\* calls of reset/step explored around and inside a with-block
MaxWithCalls == 3

WithReset == Len(trace) < MaxWithCalls /\ CallReset
WithStep  == Len(trace) < MaxWithCalls /\ CallStep

NextWith == WithEnter \/ WithExit \/ CallClose \/ WithReset \/ WithStep

SpecWith == Init /\ [][NextWith]_vars

----------------------------------------------------------------------------
(* SpecHelpers: the TimeStep helper constructors applied to any arguments. *)
(* call.before holds the arguments, call.ret the TimeStep returned.        *)

Args(reward, observation, discount) ==
  [reward |-> reward, discount |-> discount, observation |-> observation]

HelperCall(op, args, ts) ==
  CallRecord(op, PyNone, args, Outcome(PyNone, ts, <<>>), FALSE, FALSE)

CallRestart ==
  /\ \E o \in Observations :
       call' = HelperCall("restart", Args(Omitted, o, Omitted), restart(o))
  /\ UNCHANGED envVars /\ UNCHANGED specVars /\ UNCHANGED harnessVars

CallTransition ==
  /\ \E r \in Rewards, o \in Observations, d \in Discounts \cup {Omitted} :
       call' = HelperCall("transition", Args(r, o, d), transition(r, o, d))
  /\ UNCHANGED envVars /\ UNCHANGED specVars /\ UNCHANGED harnessVars

CallTermination ==
  /\ \E r \in Rewards, o \in Observations :
       call' = HelperCall("termination", Args(r, o, Omitted), termination(r, o))
  /\ UNCHANGED envVars /\ UNCHANGED specVars /\ UNCHANGED harnessVars

CallTruncation ==
  /\ \E r \in Rewards, o \in Observations, d \in Discounts \cup {Omitted} :
       call' = HelperCall("truncation", Args(r, o, d), truncation(r, o, d))
  /\ UNCHANGED envVars /\ UNCHANGED specVars /\ UNCHANGED harnessVars

NextHelpers == CallRestart \/ CallTransition \/ CallTermination \/ CallTruncation

SpecHelpers == Init /\ [][NextHelpers]_vars

----------------------------------------------------------------------------
(* specs.py: numpy arrays.  An array is its shape (a tuple of dimensions),  *)
(* its dtype and its elements in row-major order.  Integer dtypes keep      *)
(* their width: a cast wraps modulo 2^bits, as numpy's cast of an array to  *)
(* a narrower integer type does.  Float values are the integers they        *)
(* denote and float64 holds each of them exactly.                           *)

\* largest dimension of a shape, and largest length of a bound given as a list
MaxDim == 2

IntegerDTypes == {"uint8", "int8", "uint16", "int16", "uint32"}

Bits(dt)   == IF dt \in {"uint8", "int8"} THEN 8
              ELSE IF dt \in {"uint16", "int16"} THEN 16 ELSE 32
Signed(dt) == dt \in {"int8", "int16"}
IntMin(dt) == IF Signed(dt) THEN 0 - 2 ^ (Bits(dt) - 1) ELSE 0
IntMax(dt) == IF Signed(dt) THEN 2 ^ (Bits(dt) - 1) - 1 ELSE 2 ^ Bits(dt) - 1

\* the value an element holds after a cast to dt
Cast(dt, v) ==
  IF dt \in IntegerDTypes
    THEN ((v - IntMin(dt)) % (2 ^ Bits(dt))) + IntMin(dt)
    ELSE v

\* np.issubdtype(dtype, np.integer)
np_issubdtype_integer(dt) == dt \in IntegerDTypes

\* np.can_cast(from, to), casting='safe'
np_can_cast(from, to) ==
  \/ from = to
  \/ from \in IntegerDTypes /\ to = "float64"
  \/ /\ from \in IntegerDTypes /\ to \in IntegerDTypes
     /\ IntMin(to) <= IntMin(from) /\ IntMax(from) <= IntMax(to)

\* dtype1 > dtype2: dtype2 casts safely to dtype1 and differs from it
dtype_gt(dtype1, dtype2) == dtype1 # dtype2 /\ np_can_cast(dtype2, dtype1)

\* np.min_scalar_type of a non-negative integer: the narrowest unsigned type
np_min_scalar_type(v) ==
  IF v <= IntMax("uint8") THEN "uint8"
  ELSE IF v <= IntMax("uint16") THEN "uint16" ELSE "uint32"

RECURSIVE Size(_)
Size(shape) == IF shape = <<>> THEN 1 ELSE Head(shape) * Size(Tail(shape))

ndarray(shape, dtype, data) == [shape |-> shape, dtype |-> dtype, data |-> data]

\* a number or a list of numbers (Python's or numpy's) as numpy reads it
Scalar(v)  == ndarray(<<>>, "int64", <<v>>)
List(vs)   == ndarray(<<Len(vs)>>, "int64", vs)

\* the 0-based row-major multi-index of the k-th element (k from 0)
RECURSIVE Unravel(_, _)
Unravel(shape, k) ==
  IF shape = <<>> THEN <<>>
  ELSE <<k \div Size(Tail(shape))>> \o Unravel(Tail(shape), k % Size(Tail(shape)))

RECURSIVE Ravel(_, _)
Ravel(shape, idx) ==
  IF shape = <<>> THEN 0
  ELSE Head(idx) * Size(Tail(shape)) + Ravel(Tail(shape), Tail(idx))

\* numpy's broadcasting rule: trailing dimensions match or are 1
Broadcastable(from, to) ==
  /\ Len(from) <= Len(to)
  /\ \A j \in 1..Len(from) : from[j] = 1 \/ from[j] = to[j + Len(to) - Len(from)]

SourceIndex(from, to, idx) ==
  [j \in 1..Len(from) |-> IF from[j] = 1 THEN 0 ELSE idx[j + Len(to) - Len(from)]]

\* np.broadcast_to(a, shape), for a broadcastable to shape
np_broadcast_to(a, shape) ==
  ndarray(shape, a.dtype,
          [k \in 1..Size(shape) |->
             a.data[Ravel(a.shape, SourceIndex(a.shape, shape, Unravel(shape, k - 1))) + 1]])

\* np.array(a, dtype=dtype): an unchecked cast of every element.  (The module
\* uses np.object, so it runs on the numpy releases that have it, before 1.24;
\* those wrap a Python int as they wrap an array element.)
np_array(a, dtype) ==
  ndarray(a.shape, dtype, [k \in 1..Len(a.data) |-> Cast(dtype, a.data[k])])

\* np.zeros / np.ones / np.full
np_full(shape, dtype, fill) == ndarray(shape, dtype, [k \in 1..Size(shape) |-> fill])

\* (a < b).any() and (a > b).any() for b broadcastable to a's shape
AnyLess(a, b) ==
  \E k \in 1..Len(a.data) : a.data[k] < np_broadcast_to(b, a.shape).data[k]
AnyGreater(a, b) ==
  \E k \in 1..Len(a.data) : a.data[k] > np_broadcast_to(b, a.shape).data[k]

----------------------------------------------------------------------------
(* specs.py: the four specs.  A call either returns a value or raises.     *)

Returned(v) == [ret |-> v, raised |-> FALSE]
Raised(err) == [raised |-> TRUE, error |-> err]

\* Array.__init__
Array_init(cls, shape, dtype, name) ==
  [cls |-> cls, shape |-> shape, dtype |-> dtype, name |-> name]

\* a constructor that looks at the maximum before the minimum
BoundedArray_init_Mutant(cls, shape, dtype, minimum, maximum, name) ==
  IF ~Broadcastable(maximum.shape, shape)
    THEN Raised("_MAXIMUM_INCOMPATIBLE_WITH_SHAPE")
  ELSE IF ~Broadcastable(minimum.shape, shape)
    THEN Raised("_MINIMUM_INCOMPATIBLE_WITH_SHAPE")
  ELSE IF AnyGreater(np_broadcast_to(minimum, shape), np_broadcast_to(maximum, shape))
    THEN Raised("_MINIMUM_MUST_BE_LESS_THAN_OR_EQUAL_TO_MAXIMUM")
  ELSE Returned([cls |-> cls, shape |-> shape, dtype |-> dtype, name |-> name,
                 minimum |-> np_array(minimum, dtype),
                 maximum |-> np_array(maximum, dtype)])

\* BoundedArray.__init__: the bounds are compared as given and stored cast
BoundedArray_init(cls, shape, dtype, minimum, maximum, name) ==
  IF ~Broadcastable(minimum.shape, shape)
    THEN Raised("_MINIMUM_INCOMPATIBLE_WITH_SHAPE")
  ELSE IF ~Broadcastable(maximum.shape, shape)
    THEN Raised("_MAXIMUM_INCOMPATIBLE_WITH_SHAPE")
  ELSE IF AnyGreater(np_broadcast_to(minimum, shape), np_broadcast_to(maximum, shape))
    THEN Raised("_MINIMUM_MUST_BE_LESS_THAN_OR_EQUAL_TO_MAXIMUM")
  ELSE Returned([cls |-> cls, shape |-> shape, dtype |-> dtype, name |-> name,
                 minimum |-> np_array(minimum, dtype),
                 maximum |-> np_array(maximum, dtype)])

\* a constructor that looks at the dtype before num_values
DiscreteArray_init_Mutant(num_values, dtype, name) ==
  IF ~np_issubdtype_integer(dtype)
    THEN Raised("_DTYPE_NOT_INTEGRAL")
  ELSE IF num_values.val <= 0 \/ num_values.py # "int"
    THEN Raised("_NUM_VALUES_NOT_POSITIVE")
  ELSE IF dtype_gt(np_min_scalar_type(num_values.val - 1), dtype)
    THEN Raised("_DTYPE_OVERFLOW")
  ELSE LET b == BoundedArray_init("DiscreteArray", <<>>, dtype, Scalar(0),
                                  Scalar(num_values.val - 1), name)
       IN  IF b.raised THEN b
           ELSE Returned([cls |-> b.ret.cls, shape |-> b.ret.shape,
                          dtype |-> b.ret.dtype, name |-> b.ret.name,
                          minimum |-> b.ret.minimum, maximum |-> b.ret.maximum,
                          num_values |-> num_values.val])

\* DiscreteArray.__init__; num_values is a Python int or float
DiscreteArray_init(num_values, dtype, name) ==
  IF num_values.val <= 0 \/ num_values.py # "int"
    THEN Raised("_NUM_VALUES_NOT_POSITIVE")
  ELSE IF ~np_issubdtype_integer(dtype)
    THEN Raised("_DTYPE_NOT_INTEGRAL")
  ELSE IF dtype_gt(np_min_scalar_type(num_values.val - 1), dtype)
    THEN Raised("_DTYPE_OVERFLOW")
  ELSE LET b == BoundedArray_init("DiscreteArray", <<>>, dtype, Scalar(0),
                                  Scalar(num_values.val - 1), name)
       IN  IF b.raised THEN b
           ELSE Returned([cls |-> b.ret.cls, shape |-> b.ret.shape,
                          dtype |-> b.ret.dtype, name |-> b.ret.name,
                          minimum |-> b.ret.minimum, maximum |-> b.ret.maximum,
                          num_values |-> num_values.val])

\* StringArray.__init__
StringArray_init(shape, string_type, name) ==
  IF string_type \notin {"str", "bytes"} THEN Raised("_INVALID_STRING_TYPE")
  ELSE Returned([cls |-> "StringArray", shape |-> shape, dtype |-> "object",
                 name |-> name, string_type |-> string_type])

\* isinstance(s, Array): every spec is one; None and tuples are not
IsArray(s) == "cls" \in DOMAIN s

\* isinstance(s, BoundedArray): DiscreteArray is a subclass
IsBounded(s) == IsArray(s) /\ s.cls \in {"BoundedArray", "DiscreteArray"}

\* a validate that looks at the dtype first
Array_validate_Mutant(s, v) ==
  IF v.dtype # s.dtype THEN Raised("_INVALID_DTYPE")
  ELSE IF v.shape # s.shape THEN Raised("_INVALID_SHAPE")
  ELSE Returned(v)

\* Array.validate
Array_validate(s, v) ==
  IF v.shape # s.shape THEN Raised("_INVALID_SHAPE")
  ELSE IF v.dtype # s.dtype THEN Raised("_INVALID_DTYPE")
  ELSE Returned(v)

\* a validate that looks at the bounds before the dtype
BoundedArray_validate_Mutant(s, v) ==
  IF v.shape = s.shape /\ (AnyLess(v, s.minimum) \/ AnyGreater(v, s.maximum))
    THEN Raised("_OUT_OF_BOUNDS")
  ELSE Array_validate(s, v)

\* BoundedArray.validate
BoundedArray_validate(s, v) ==
  IF Array_validate(s, v).raised THEN Array_validate(s, v)
  ELSE IF AnyLess(v, s.minimum) \/ AnyGreater(v, s.maximum)
    THEN Raised("_OUT_OF_BOUNDS")
  ELSE Returned(v)

\* the Python type of the elements of np.asarray(v, dtype=object)
ItemType(v, k) == IF v.dtype = "object" THEN v.data[k].py ELSE "number"

\* StringArray.validate
StringArray_validate(s, v) ==
  IF v.shape # s.shape THEN Raised("_INVALID_SHAPE")
  ELSE IF \E k \in 1..Len(v.data) : ItemType(v, k) # s.string_type
    THEN Raised("_INVALID_ELEMENT_TYPE")
  ELSE Returned(ndarray(v.shape, "object", v.data))

\* s.validate(v), dispatched on the class of s
validate(s, v) ==
  IF IsBounded(s) THEN BoundedArray_validate(s, v)
  ELSE IF s.cls = "StringArray" THEN StringArray_validate(s, v)
  ELSE Array_validate(s, v)

\* Array.generate_value
Array_generate_value(s) == np_full(s.shape, s.dtype, Cast(s.dtype, 0))

\* BoundedArray.generate_value: ones of the dtype times the stored minimum
BoundedArray_generate_value(s) ==
  ndarray(s.shape, s.dtype,
          [k \in 1..Size(s.shape) |->
             Cast(s.dtype, 1 * Cast(s.dtype, np_broadcast_to(s.minimum, s.shape).data[k]))])

\* StringArray.generate_value: filled with the empty string of the string type
StringArray_generate_value(s) ==
  np_full(s.shape, s.dtype, [py |-> s.string_type, val |-> ""])

\* s.generate_value(), dispatched on the class of s
generate_value(s) ==
  IF IsBounded(s) THEN BoundedArray_generate_value(s)
  ELSE IF s.cls = "StringArray" THEN StringArray_generate_value(s)
  ELSE Array_generate_value(s)

----------------------------------------------------------------------------
(* SpecArrays: one spec is constructed from any arguments within the       *)
(* bounds; if the constructor returns, values are generated and validated. *)

Shapes ==
  {<<>>} \cup {<<a>> : a \in 1..MaxDim} \cup {<<a, b>> : a \in 1..MaxDim, b \in 1..MaxDim}

\* dtypes given to Array and BoundedArray, and to DiscreteArray
ArrayDTypes    == {"uint8", "int8", "float64"}
DiscreteDTypes == {"uint8", "int8", "int16", "float64"}

Names == {PyNone, [py |-> "str", val |-> "test"]}

\* bounds as given: numbers inside and outside the 8-bit ranges, as scalars
\* or as lists of 1..MaxDim of them
BoundValues == {0, 200, 300}
RECURSIVE Lists(_)
Lists(n) ==
  IF n = 0 THEN {<<>>}
  ELSE {Append(l, v) : l \in Lists(n - 1), v \in BoundValues}
BoundInputs ==
  {Scalar(v) : v \in BoundValues} \cup
  UNION {{List(l) : l \in Lists(n)} : n \in 1..MaxDim}

NumValuesInputs ==
  {[py |-> "int", val |-> n] : n \in {0 - 1, 0, 1, 2, 128, 129, 200, 256, 257, 300}}
  \cup {[py |-> "float", val |-> 2]}

CtorCalls ==
  {[cls |-> "Array", shape |-> sh, dtype |-> dt, name |-> nm] :
     sh \in Shapes, dt \in ArrayDTypes, nm \in Names}
  \cup
  {[cls |-> "BoundedArray", shape |-> sh, dtype |-> dt, name |-> nm,
    minimum |-> lo, maximum |-> hi] :
     sh \in Shapes, dt \in ArrayDTypes, nm \in Names, lo \in BoundInputs, hi \in BoundInputs}
  \cup
  {[cls |-> "DiscreteArray", dtype |-> dt, name |-> nm, num_values |-> n] :
     dt \in DiscreteDTypes, nm \in Names, n \in NumValuesInputs}
  \cup
  {[cls |-> "StringArray", shape |-> sh, name |-> nm, string_type |-> st] :
     sh \in Shapes, nm \in Names, st \in {"str", "bytes", "int"}}

\* the constructor call c
Construct(c) ==
  IF c.cls = "Array" THEN Returned(Array_init("Array", c.shape, c.dtype, c.name))
  ELSE IF c.cls = "BoundedArray"
    THEN BoundedArray_init("BoundedArray", c.shape, c.dtype, c.minimum, c.maximum, c.name)
  ELSE IF c.cls = "DiscreteArray" THEN DiscreteArray_init(c.num_values, c.dtype, c.name)
  ELSE StringArray_init(c.shape, c.string_type, c.name)

\* the record of a spec operation: what it returned, or the error it raised
Result(op, o) ==
  [ret |-> IF o.raised THEN PyNone ELSE o.ret, op |-> op, raised |-> o.raised,
   error |-> IF o.raised THEN o.error ELSE ""]

InitArrays ==
  /\ InitEnv("Subclass", 0)
  /\ ctor \in CtorCalls
  /\ spec = PyNone /\ value = PyNone /\ result = PyNone
  /\ NoHarness

DoConstruct ==
  /\ result = PyNone
  /\ result' = Result("__init__", Construct(ctor))
  /\ spec' = (IF Construct(ctor).raised THEN PyNone ELSE Construct(ctor).ret)
  /\ UNCHANGED <<ctor, value, call>> /\ UNCHANGED envVars /\ UNCHANGED harnessVars

DoGenerateValue ==
  /\ spec # PyNone
  /\ value' = generate_value(spec)
  /\ result' = Result("generate_value", Returned(generate_value(spec)))
  /\ UNCHANGED <<ctor, spec, call>> /\ UNCHANGED envVars /\ UNCHANGED harnessVars

DoValidate ==
  /\ spec # PyNone /\ value # PyNone
  /\ result' = Result("validate", validate(spec, value))
  /\ UNCHANGED <<ctor, spec, value, call>> /\ UNCHANGED envVars /\ UNCHANGED harnessVars

NextArrays == DoConstruct \/ DoGenerateValue \/ DoValidate

SpecArrays == InitArrays /\ [][NextArrays]_vars

----------------------------------------------------------------------------
(* specs.py: replace, __reduce__ and __eq__ *)

\* Array._get_constructor_kwargs: the attributes of s named as the parameters
\* of the constructor of type(s)
_get_constructor_kwargs(s) ==
  IF s.cls = "Array"
    THEN [cls |-> s.cls, shape |-> s.shape, dtype |-> s.dtype, name |-> s.name]
  ELSE IF s.cls = "BoundedArray"
    THEN [cls |-> s.cls, shape |-> s.shape, dtype |-> s.dtype, name |-> s.name,
          minimum |-> s.minimum, maximum |-> s.maximum]
  ELSE IF s.cls = "DiscreteArray"
    THEN [cls |-> s.cls, dtype |-> s.dtype, name |-> s.name,
          num_values |-> [py |-> "int", val |-> s.num_values]]
  ELSE [cls |-> s.cls, shape |-> s.shape, name |-> s.name, string_type |-> s.string_type]

\* a replace that drops the keyword: a plain copy
replace_Mutant(s, attr, x) ==
  IF attr \notin DOMAIN _get_constructor_kwargs(s) \ {"cls"} THEN Raised("TypeError")
  ELSE Construct(_get_constructor_kwargs(s))

\* Array.replace with one keyword: type(s)(**kwargs) with kwargs[attr] = x; a
\* keyword the constructor does not have is a TypeError
replace(s, attr, x) ==
  IF attr \notin DOMAIN _get_constructor_kwargs(s) \ {"cls"} THEN Raised("TypeError")
  ELSE Construct([_get_constructor_kwargs(s) EXCEPT ![attr] = x])

\* __reduce__ of the four classes: the constructor and its positional arguments
Array_reduce(s) ==
  [cls |-> "Array", shape |-> s.shape, dtype |-> s.dtype, name |-> s.name]
BoundedArray_reduce(s) ==
  [cls |-> "BoundedArray", shape |-> s.shape, dtype |-> s.dtype, name |-> s.name,
   minimum |-> s.minimum, maximum |-> s.maximum]
DiscreteArray_reduce(s) ==
  [cls |-> "DiscreteArray", dtype |-> s.dtype, name |-> s.name,
   num_values |-> [py |-> "int", val |-> s.num_values]]
StringArray_reduce(s) ==
  [cls |-> s.cls, shape |-> s.shape, name |-> s.name, string_type |-> s.string_type]

\* s.__reduce__(), dispatched on the class of s
reduce(s) ==
  IF s.cls = "DiscreteArray" THEN DiscreteArray_reduce(s)
  ELSE IF s.cls = "BoundedArray" THEN BoundedArray_reduce(s)
  ELSE IF s.cls = "StringArray" THEN StringArray_reduce(s)
  ELSE Array_reduce(s)

\* the shape two arrays broadcast to: dimensions aligned at the end, 1 stretches
Dim(shape, rank, j) ==
  IF j + Len(shape) - rank >= 1 THEN shape[j + Len(shape) - rank] ELSE 1
Max(a, b) == IF a >= b THEN a ELSE b
np_broadcast_shape(sa, sb) ==
  [j \in 1..Max(Len(sa), Len(sb)) |->
     Max(Dim(sa, Max(Len(sa), Len(sb)), j), Dim(sb, Max(Len(sa), Len(sb)), j))]

\* (a == b).all()
AllEqual(a, b) ==
  \A k \in 1..Size(np_broadcast_shape(a.shape, b.shape)) :
    np_broadcast_to(a, np_broadcast_shape(a.shape, b.shape)).data[k] =
    np_broadcast_to(b, np_broadcast_shape(a.shape, b.shape)).data[k]

\* Array.__eq__
Array_eq(s, other) ==
  IF ~IsArray(other) THEN FALSE
  ELSE s.shape = other.shape /\ s.dtype = other.dtype

\* an __eq__ that forgets the maximum
BoundedArray_eq_Mutant(s, other) ==
  IF ~IsBounded(other) THEN FALSE
  ELSE Array_eq(s, other) /\ AllEqual(s.minimum, other.minimum)

\* BoundedArray.__eq__
BoundedArray_eq(s, other) ==
  IF ~IsBounded(other) THEN FALSE
  ELSE /\ Array_eq(s, other)
       /\ AllEqual(s.minimum, other.minimum)
       /\ AllEqual(s.maximum, other.maximum)

\* a == b that always asks the left operand
eq_Mutant(a, b) ==
  IF IsBounded(a) THEN BoundedArray_eq(a, b)
  ELSE IF IsArray(a) THEN Array_eq(a, b)
  ELSE IF IsBounded(b) THEN BoundedArray_eq(b, a)
  ELSE IF IsArray(b) THEN Array_eq(b, a)
  ELSE a = b

\* a == b: Python asks the right operand first when its class is a subclass of
\* the left one's that overrides __eq__, and also when the left operand is no
\* spec (None and tuples return NotImplemented for a spec)
eq(a, b) ==
  IF IsBounded(a) THEN BoundedArray_eq(a, b)
  ELSE IF IsBounded(b) THEN BoundedArray_eq(b, a)
  ELSE IF IsArray(a) THEN Array_eq(a, b)
  ELSE IF IsArray(b) THEN Array_eq(b, a)
  ELSE a = b

\* a != b: Array.__ne__ is "not self == other", asked of whichever operand
\* is a spec
ne(a, b) == ~eq(a, b)

----------------------------------------------------------------------------
(* SpecOps: a spec built by one of a few constructor calls is replaced,    *)
(* rebuilt from __reduce__, compared with other specs and handed values.   *)

OpShapes == {<<>>, <<MaxDim>>}
OpDTypes == {"uint8", "float64"}
OpBounds ==
  {Scalar(0), Scalar(200), Scalar(300),
   List([j \in 1..MaxDim |-> 200]), List([j \in 1..MaxDim |-> IF j = 1 THEN 0 ELSE 200])}
OpNumValues == {[py |-> "int", val |-> n] : n \in {0, 2, 129, 257}}

OpCtorCalls ==
  {[cls |-> "Array", shape |-> sh, dtype |-> dt, name |-> nm] :
     sh \in OpShapes, dt \in OpDTypes, nm \in Names}
  \cup
  {[cls |-> "BoundedArray", shape |-> sh, dtype |-> dt, name |-> nm,
    minimum |-> lo, maximum |-> hi] :
     sh \in OpShapes, dt \in OpDTypes, nm \in Names, lo \in OpBounds, hi \in OpBounds}
  \cup
  {[cls |-> "DiscreteArray", dtype |-> dt, name |-> nm, num_values |-> n] :
     dt \in {"uint8", "int8"}, nm \in Names, n \in OpNumValues}
  \cup
  {[cls |-> "StringArray", shape |-> sh, name |-> nm, string_type |-> st] :
     sh \in OpShapes, nm \in Names, st \in {"str", "bytes"}}

\* the keywords given to replace(), and the values given for each
Attrs == {"shape", "dtype", "name", "minimum", "maximum", "num_values", "string_type"}
Overrides(attr) ==
  IF attr = "shape" THEN OpShapes
  ELSE IF attr = "dtype" THEN OpDTypes
  ELSE IF attr = "name" THEN {PyNone, [py |-> "str", val |-> "something_else"]}
  ELSE IF attr \in {"minimum", "maximum"} THEN OpBounds
  ELSE IF attr = "num_values" THEN OpNumValues
  ELSE {"str", "bytes", "int"}

\* the arrays handed to validate: every shape and dtype, elements below, at and
\* above the bounds in use (as the dtype holds them)
ValueElems == {0 - 1, 0, 200}
GivenValues ==
  UNION {{np_array(ndarray(sh, "int64", [j \in 1..Size(sh) |-> IF j = 1 THEN a ELSE b]), dt) :
            a \in ValueElems, b \in ValueElems} :
           sh \in OpShapes, dt \in OpDTypes \cup {"int8"}}

\* the values handed to the validate of s: the given ones and, for a bounded
\* spec, its bounds themselves, as stored, for every element
ValuesFor(s) ==
  GivenValues \cup
  (IF IsBounded(s)
     THEN {np_broadcast_to(s.minimum, s.shape), np_broadcast_to(s.maximum, s.shape)}
     ELSE {})

\* the record of a call on a spec: the receiver, the argument, what came back
Called(op, before, action, o) ==
  [ret |-> IF o.raised THEN PyNone ELSE o.ret, action |-> action, op |-> op,
   before |-> before, raised |-> o.raised, error |-> IF o.raised THEN o.error ELSE ""]

\* the last operation built spec: the operations that read it are run once
Fresh == result # PyNone /\ result.op \in {"__init__", "replace"}

InitOps ==
  /\ InitEnv("Subclass", 0)
  /\ ctor \in OpCtorCalls
  /\ spec = PyNone /\ value = PyNone /\ result = PyNone
  /\ NoHarness

\* spec = spec.replace(attr=x): a constructor call with the attributes of spec
\* and x; the caller keeps the old spec when it raises
DoReplace ==
  /\ spec # PyNone /\ Fresh
  /\ \E attr \in Attrs : \E x \in Overrides(attr) :
       /\ result' = Called("replace", spec, <<attr, x>>, replace(spec, attr, x))
       /\ spec' = (IF replace(spec, attr, x).raised THEN spec ELSE replace(spec, attr, x).ret)
       /\ ctor' = (IF replace(spec, attr, x).raised THEN ctor
                   ELSE [_get_constructor_kwargs(spec) EXCEPT ![attr] = x])
  /\ UNCHANGED <<value, call>> /\ UNCHANGED envVars /\ UNCHANGED harnessVars

\* cls, args = spec.__reduce__(); cls(*args)
DoReduce ==
  /\ spec # PyNone /\ Fresh
  /\ result' = Called("__reduce__", spec, reduce(spec), Construct(reduce(spec)))
  /\ UNCHANGED <<ctor, spec, value, call>> /\ UNCHANGED envVars /\ UNCHANGED harnessVars

\* spec == other, for another constructed spec
DoEq ==
  /\ spec # PyNone /\ Fresh
  /\ \E c \in OpCtorCalls :
       /\ ~Construct(c).raised
       /\ result' = Called("__eq__", spec, Construct(c).ret,
                           Returned(eq(spec, Construct(c).ret)))
  /\ UNCHANGED <<ctor, spec, value, call>> /\ UNCHANGED envVars /\ UNCHANGED harnessVars

\* spec.validate(v)
DoValidateGiven ==
  /\ spec # PyNone /\ Fresh
  /\ \E v \in ValuesFor(spec) :
       result' = Called("validate", spec, v, validate(spec, v))
  /\ UNCHANGED <<ctor, spec, value, call>> /\ UNCHANGED envVars /\ UNCHANGED harnessVars

NextOps == DoConstruct \/ DoReplace \/ DoReduce \/ DoValidateGiven

SpecOps == InitOps /\ [][NextOps]_vars

\* values that are not specs: None and ()
NonSpecs == {PyNone, [py |-> "tuple", val |-> <<>>]}

\* spec == other, other == spec, spec != other and other != spec, for other a
\* spec or not
DoCompare ==
  /\ spec # PyNone /\ Fresh
  /\ \E other \in {Construct(c).ret : c \in {k \in OpCtorCalls : ~Construct(k).raised}}
                  \cup NonSpecs :
       \/ result' = Called("==", spec, other, Returned(eq(spec, other)))
       \/ result' = Called("==", other, spec, Returned(eq(other, spec)))
       \/ result' = Called("!=", spec, other, Returned(ne(spec, other)))
       \/ result' = Called("!=", other, spec, Returned(ne(other, spec)))
  /\ UNCHANGED <<ctor, spec, value, call>> /\ UNCHANGED envVars /\ UNCHANGED harnessVars

NextEq == DoConstruct \/ DoEq \/ DoCompare

SpecEq == InitOps /\ [][NextEq]_vars

----------------------------------------------------------------------------
(* _environment.py: the spec accessors of an Environment *)

Str(s) == [py |-> "str", val |-> s]

\* a reward_spec that also asks for a reset
Environment_reward_spec_Mutant(e) ==
  Outcome([e EXCEPT !.reset_next_step = TRUE],
          Array_init("Array", <<>>, "float64", Str("reward")), <<>>)

\* Environment.reward_spec: Array(shape=(), dtype=float, name='reward')
Environment_reward_spec(e) ==
  Outcome(e, Array_init("Array", <<>>, "float64", Str("reward")), <<>>)

\* Environment.discount_spec:
\* BoundedArray(shape=(), dtype=float, minimum=0., maximum=1., name='discount')
Environment_discount_spec(e) ==
  Outcome(e, BoundedArray_init("BoundedArray", <<>>, "float64", Scalar(0), Scalar(1),
                               Str("discount")).ret, <<>>)

\* observation_spec and action_spec are the subclass's: those of FakeEnvironment
FakeEnvironment_action_spec(e) ==
  Outcome(e, Array_init("Array", <<>>, "int64", PyNone), <<>>)
FakeEnvironment_observation_spec(e) ==
  Outcome(e, Array_init("Array", <<3>>, "float64", PyNone), <<>>)

(* SpecAccessors: a caller of reset and step who also reads the specs and   *)
(* closes the environment, at any point                                     *)

CallRewardSpec ==
  /\ Install("reward_spec", PyNone, Self("Subclass"), Environment_reward_spec(Self("Subclass")))
  /\ UNCHANGED <<trace, with_pc, close_calls>> /\ UNCHANGED specVars /\ UNCHANGED harnessVars

CallDiscountSpec ==
  /\ Install("discount_spec", PyNone, Self("Subclass"),
             Environment_discount_spec(Self("Subclass")))
  /\ UNCHANGED <<trace, with_pc, close_calls>> /\ UNCHANGED specVars /\ UNCHANGED harnessVars

CallObservationSpec ==
  /\ Install("observation_spec", PyNone, Self("Subclass"),
             FakeEnvironment_observation_spec(Self("Subclass")))
  /\ UNCHANGED <<trace, with_pc, close_calls>> /\ UNCHANGED specVars /\ UNCHANGED harnessVars

CallActionSpec ==
  /\ Install("action_spec", PyNone, Self("Subclass"),
             FakeEnvironment_action_spec(Self("Subclass")))
  /\ UNCHANGED <<trace, with_pc, close_calls>> /\ UNCHANGED specVars /\ UNCHANGED harnessVars

NextAccessors ==
  \/ CallReset \/ CallStep \/ CallClose
  \/ CallRewardSpec \/ CallDiscountSpec \/ CallObservationSpec \/ CallActionSpec

SpecAccessors == Init /\ [][NextAccessors]_vars

----------------------------------------------------------------------------
(* test_utils.py: EnvironmentTestMixin, run on the MockEnvironment of      *)
(* test_utils_test.py.  A MockEnvironment is a record of its fields;       *)
(* iter_timesteps is the position of itertools.cycle in timesteps (0 when  *)
(* nothing has been taken).  A float that is not whole is modelled by the  *)
(* next whole one: the discount 1.5 of the test by 2.                      *)

\* range(20) of the default make_action_sequence
DefaultActionSequenceLength == 20
\* longest action sequence of a test class that overrides make_action_sequence
MaxActionSequence == 3
\* longest list of TimeSteps given to a MockEnvironment
MaxTimesteps == 4

PyFloat(x) == [py |-> "float", val |-> x]
PyBool(b)  == [py |-> "bool", val |-> b]
PyList(vs) == [py |-> "list", val |-> vs]

\* np.asarray(value) as Array.validate applies it
np_asarray(v) ==
  IF "shape" \in DOMAIN v THEN v
  ELSE IF v.py = "float" THEN ndarray(<<>>, "float64", <<v.val>>)
  ELSE IF v.py = "bool" THEN ndarray(<<>>, "bool", <<v.val>>)
  ELSE ndarray(<<>>, "object", <<v>>)

REWARD_SPEC      == Array_init("Array", <<>>, "float64", PyNone)
DISCOUNT_SPEC    ==
  BoundedArray_init("BoundedArray", <<>>, "float64", Scalar(0), Scalar(1), PyNone).ret
OBSERVATION_SPEC == Array_init("Array", <<2, 3>>, "float64", PyNone)
ACTION_SPEC      ==
  BoundedArray_init("BoundedArray", <<>>, "int64", Scalar(0), Scalar(2), PyNone).ret

REWARD      == generate_value(REWARD_SPEC)
DISCOUNT    == generate_value(DISCOUNT_SPEC)
OBSERVATION == generate_value(OBSERVATION_SPEC)

Mock_FIRST == restart(OBSERVATION)
Mock_MID   == transition(REWARD, OBSERVATION, DISCOUNT)
Mock_LAST  == truncation(REWARD, OBSERVATION, DISCOUNT)

\* MockEnvironment.__init__
MockEnvironment_init(timesteps) == [timesteps |-> timesteps, iter_timesteps |-> 0]

\* next(self._iter_timesteps) on the cycle
MockEnvironment_next(e) ==
  LET k == (e.iter_timesteps % Len(e.timesteps)) + 1
  IN  Outcome([e EXCEPT !.iter_timesteps = k], e.timesteps[k], <<>>)

\* MockEnvironment.reset: a new cycle, and its first element
MockEnvironment_reset(e) == MockEnvironment_next([e EXCEPT !.iter_timesteps = 0])

\* MockEnvironment.step: the action is not read
MockEnvironment_step(e, action) == MockEnvironment_next(e)

\* tree.assert_same_structure(value, spec) against a single spec fails for a
\* list; arrays, numbers and None are leaves
SameStructure(v) == "shape" \in DOMAIN v \/ v.py # "list"

\* EnvironmentTestMixin.assertConformsToSpec
assertConformsToSpec(v, s) ==
  IF ~SameStructure(v) THEN Raised("AssertionError")
  ELSE IF validate(s, np_asarray(v)).raised THEN Raised("ValueError")
  ELSE Returned(PyNone)

assertValidObservation(observation) == assertConformsToSpec(observation, OBSERVATION_SPEC)
assertValidReward(reward)           == assertConformsToSpec(reward, REWARD_SPEC)
assertValidDiscount(discount)       == assertConformsToSpec(discount, DISCOUNT_SPEC)

\* a step_type value that is no member of StepType
NotAStepType == 3

\* a FIRST step is only asked for an observation
assertValidStep_Mutant(ts) ==
  IF ts.step_type \notin StepType THEN Raised("AssertionError")
  ELSE IF ts.step_type # FIRST /\ assertValidReward(ts.reward).raised
    THEN assertValidReward(ts.reward)
  ELSE IF ts.step_type # FIRST /\ assertValidDiscount(ts.discount).raised
    THEN assertValidDiscount(ts.discount)
  ELSE assertValidObservation(ts.observation)

\* EnvironmentTestMixin.assertValidStep; every value a MockEnvironment holds
\* is a TimeStep, so assertIsInstance(step, TimeStep) passes
assertValidStep(ts) ==
  IF ts.step_type \notin StepType THEN Raised("AssertionError")
  ELSE IF ts.step_type = FIRST /\ ts.reward # PyNone THEN Raised("AssertionError")
  ELSE IF ts.step_type = FIRST /\ ts.discount # PyNone THEN Raised("AssertionError")
  ELSE IF ts.step_type # FIRST /\ assertValidReward(ts.reward).raised
    THEN assertValidReward(ts.reward)
  ELSE IF ts.step_type # FIRST /\ assertValidDiscount(ts.discount).raised
    THEN assertValidDiscount(ts.discount)
  ELSE assertValidObservation(ts.observation)

\* what a helper of the mixin hands back: the environment afterwards, the
\* step it got, and the assertion or validation error that ended it, if any
Checked(e, ts, check) ==
  [ret |-> ts, env |-> e, raised |-> check.raised,
   error |-> IF check.raised THEN check.error ELSE "none"]

\* EnvironmentTestMixin.reset_environment
reset_environment(e) ==
  LET r == MockEnvironment_reset(e)
  IN  IF assertValidStep(r.ret).raised THEN Checked(r.env, r.ret, assertValidStep(r.ret))
      ELSE IF r.ret.step_type # FIRST THEN Checked(r.env, r.ret, Raised("AssertionError"))
      ELSE Checked(r.env, r.ret, Returned(PyNone))

\* EnvironmentTestMixin.make_action
make_action == generate_value(ACTION_SPEC)

\* the lengths of what make_action_sequence yields: the default's, or that of
\* an overriding test class
ActionSequenceLengths == 1..MaxActionSequence \cup {DefaultActionSequenceLength}

\* EnvironmentTestMixin.step_environment
step_environment(e, action) ==
  LET r == MockEnvironment_step(e, action)
  IN  Checked(r.env, r.ret, assertValidStep(r.ret))

\* an ordering check that lets anything follow a LAST step
StepTypeFollows_Mutant(prev_step_type, step_type) ==
  prev_step_type = LAST \/ step_type # FIRST

\* the two ordering assertions in the loop of test_longer_action_sequence
StepTypeFollows(prev_step_type, step_type) ==
  IF prev_step_type = LAST THEN step_type = FIRST ELSE step_type # FIRST

(* SpecHarness: test_longer_action_sequence on a MockEnvironment.  test is *)
(* the frame of the method: where it is (pc), the round of the outer loop, *)
(* the actions taken in the round, its locals, the step last checked with  *)
(* what assertValidStep said about it, and how the method ended;           *)
(* action_sequence is the number of actions make_action_sequence yields.   *)

\* a local that is not bound yet
Unbound == 0 - 1

\* every TimeStep built from the values the test file uses
AllTimeSteps ==
  {TimeStep(t, r, d, o) :
     t \in StepType \cup {NotAStepType},
     r \in {PyNone, REWARD, PyFloat(1), PyBool(FALSE)},
     d \in {PyNone, DISCOUNT, PyFloat(1), PyFloat(2)},
     o \in {OBSERVATION, np_full(<<3, 4>>, "float64", 0), PyList(<<OBSERVATION>>)}}

\* the lists of TimeSteps given to MockEnvironment: any list of the three
\* well-formed steps, and any TimeStep at all alone or after FIRST
TimestepSequences ==
  UNION {[1..n -> {Mock_FIRST, Mock_MID, Mock_LAST}] : n \in 1..MaxTimesteps}
    \cup {<<ts>> : ts \in AllTimeSteps}
    \cup {<<Mock_FIRST, ts>> : ts \in AllTimeSteps}

InitHarness ==
  /\ InitEnv("Subclass", 0)
  /\ ctor = PyNone /\ spec = PyNone /\ value = PyNone /\ result = PyNone
  /\ mock \in {MockEnvironment_init(ts) : ts \in TimestepSequences}
  /\ \E n \in ActionSequenceLengths :
     test = [step |-> PyNone, prev_step_type |-> Unbound, pc |-> "reset",
             round |-> 1, actions_done |-> 0, encountered_last_step |-> FALSE,
             checked |-> PyNone, outcome |-> PyNone, action_sequence |-> n]

HarnessFrame ==
  UNCHANGED <<reset_next_step, steps_taken, step_limit, last_action, call,
              with_pc, close_calls>> /\ UNCHANGED specVars

\* step = self.reset_environment(); prev_step_type = step.step_type
TestReset ==
  /\ test # PyNone /\ test.pc = "reset"
  /\ LET r == reset_environment(mock)
     IN  /\ mock' = r.env
         /\ trace' = Append(trace, [step_type |-> r.ret.step_type, op |-> "reset"])
         /\ test' = IF r.raised
                      THEN [test EXCEPT !.pc = "failed", !.step = r.ret,
                                        !.checked = assertValidStep(r.ret),
                                        !.outcome = Raised(r.error)]
                      ELSE [test EXCEPT !.pc = "actions", !.actions_done = 0,
                                        !.prev_step_type = r.ret.step_type,
                                        !.step = r.ret,
                                        !.checked = assertValidStep(r.ret)]
  /\ HarnessFrame

\* one pass of the inner loop, and what follows it when it was the last one:
\* the next round, or the end of the method
TestStep ==
  /\ test # PyNone /\ test.pc = "actions"
  /\ LET r == step_environment(mock, make_action)
         ends == test.actions_done + 1 = test.action_sequence
     IN  /\ mock' = r.env
         /\ trace' = Append(trace, [step_type |-> r.ret.step_type, op |-> "step"])
         /\ test' =
              IF r.raised
                THEN [test EXCEPT !.pc = "failed", !.step = r.ret,
                                  !.checked = assertValidStep(r.ret),
                                  !.outcome = Raised(r.error)]
              ELSE IF ~StepTypeFollows(test.prev_step_type, r.ret.step_type)
                THEN [test EXCEPT !.pc = "failed", !.step = r.ret,
                                  !.checked = assertValidStep(r.ret),
                                  !.outcome = Raised("AssertionError")]
              ELSE [test EXCEPT
                      !.pc = IF ~ends THEN "actions"
                             ELSE IF test.round < 2 THEN "reset" ELSE "done",
                      !.round = IF ends /\ test.round < 2 THEN @ + 1 ELSE @,
                      !.actions_done = @ + 1,
                      !.prev_step_type = r.ret.step_type,
                      !.encountered_last_step = @ \/ TimeStep_last(r.ret),
                      !.step = r.ret,
                      !.checked = assertValidStep(r.ret),
                      !.outcome = IF ends /\ test.round = 2 THEN Returned(PyNone) ELSE @]
  /\ HarnessFrame

NextHarness == TestReset \/ TestStep

SpecHarness == InitHarness /\ [][NextHarness]_vars

----------------------------------------------------------------------------
(* Properties of the AutoResetEnvironment wrapper (Spec, SpecFake) *)

OnlySteps == \A i \in 1..Len(trace) : trace[i].op = "step"
Markers   == [i \in 1..Len(trace) |-> trace[i].step_type]

\* C1: when a fresh AutoResetEnvironment (whose _reset returns FIRST and
\* whose _step returns MID or LAST) is driven by step() calls only, the n-th
\* returned TimeStep is FIRST if and only if it is the very first one or the
\* one returned just before it was LAST.
C1_FirstIffStartOrAfterLast ==
  OnlySteps =>
    \A n \in 1..Len(trace) :
      (trace[n].step_type = FIRST) <=> (n = 1 \/ trace[n - 1].step_type = LAST)

C1_Witness ==
  /\ OnlySteps
  /\ \E n \in 3..Len(trace) :
       /\ trace[n - 2].step_type = MID
       /\ trace[n - 1].step_type = LAST
       /\ trace[n].step_type = FIRST

\* C2: a step(action) on a fresh environment, or right after a returned
\* LAST, is a reset(): it invokes _reset and not _step, and the TimeStep it
\* returns and the object it leaves are those of reset(), whatever the action.
C2_StepWhenDueIsReset ==
  LET n == Len(trace)
  IN  (n >= 1 /\ call.op = "step" /\ (n = 1 \/ trace[n - 1].step_type = LAST)) =>
        /\ call.hooks = <<"_reset">>
        /\ call.ret = reset(call.before).ret
        /\ Self(call.before.cls) = reset(call.before).env
        /\ last_action = call.before.last_action
        /\ \A a \in Actions, out \in StepOutcomes :
             step(call.before, a, out) = reset(call.before)

C2_Witness ==
  LET n == Len(trace)
  IN  /\ n >= 2 /\ call.op = "step" /\ trace[n - 1].step_type = LAST
      /\ call.action = PyNum(1)
      /\ call.before.last_action = PyNum(0)
      /\ call.hooks = <<"_reset">>

\* C3: reset() may be called in any state; each call clears the
\* reset-pending flag, invokes _reset exactly once and returns its result,
\* a FIRST TimeStep with no reward and no discount.
C3_ResetAnytime ==
  call.op = "reset" =>
    /\ reset_next_step = FALSE
    /\ call.hooks = <<"_reset">>
    /\ call.ret = _reset(call.before).ret
    /\ TimeStep_first(call.ret)
    /\ call.ret.reward = PyNone
    /\ call.ret.discount = PyNone

\* reset() on a fresh object, right after a reset, mid-episode and after a LAST
C3_Witness ==
  /\ call.op = "reset"
  /\ Len(trace) >= 2
  /\ trace[1].op = "reset"
  /\ trace[2].op = "reset"
  /\ \E i \in 2..Len(trace) : trace[i].op = "reset" /\ trace[i - 1].step_type = MID
  /\ trace[Len(trace) - 1].step_type = LAST

\* the marker FakeEnvironment(k) returns on step() call n, counted from 0
FakeMarker(k, n) ==
  IF n % (k + 1) = 0 THEN FIRST ELSE IF n % (k + 1) = k THEN LAST ELSE MID

\* C4: step() calls alone on a fresh FakeEnvironment(step_limit = k), k >= 1,
\* return markers of period k + 1: FIRST on call n when n mod (k + 1) = 0, LAST
\* when it is k, MID otherwise; with k = 5 the first ten are
\* FIRST MID MID MID MID LAST FIRST MID MID MID.
C4_FakePeriod ==
  OnlySteps =>
    /\ \A n \in 1..Len(trace) : trace[n].step_type = FakeMarker(step_limit, n - 1)
    /\ (step_limit = 5 /\ Len(trace) = 10) =>
         Markers = <<FIRST, MID, MID, MID, MID, LAST, FIRST, MID, MID, MID>>

C4_Witness == OnlySteps /\ step_limit = 5 /\ Len(trace) = 10

\* C19: in any interleaving of reset() and step() calls (with _reset returning
\* FIRST and _step only MID or LAST) a step() returns FIRST if and only if it
\* is the first call on the instance or the call just before it, reset or
\* step, returned LAST; a step() right after a reset() never returns FIRST.
C19_StepFirstInterleaved ==
  \A n \in 1..Len(trace) :
    trace[n].op = "step" =>
      /\ (trace[n].step_type = FIRST) <=> (n = 1 \/ trace[n - 1].step_type = LAST)
      /\ (n > 1 /\ trace[n - 1].op = "reset") => trace[n].step_type # FIRST

\* reset, a step that ends the episode at once, the step that restarts it,
\* and a reset in mid-episode followed by a step
C19_Witness ==
  /\ Len(trace) >= 6
  /\ trace[1].op = "reset" /\ trace[2].op = "step" /\ trace[2].step_type = LAST
  /\ trace[3].op = "step" /\ trace[3].step_type = FIRST
  /\ trace[4].step_type = MID
  /\ trace[5].op = "reset" /\ trace[6].op = "step" /\ trace[6].step_type = MID

\* C20: with no reset pending, step(action) invokes _step exactly once, with
\* the action given, and not _reset; it returns the TimeStep of _step as it is;
\* afterwards a reset is pending if and only if that TimeStep is LAST.  On
\* construction a reset is pending.
C20_StepDelegates ==
  /\ call = NoCall => reset_next_step
  /\ (call.op = "step" /\ ~call.before.reset_next_step) =>
       /\ call.hooks = <<"_step">>
       /\ last_action = call.action
       /\ \E out \in StepOutcomes :
            call.ret = out /\ call.ret = _step(call.before, call.action, out).ret
       /\ reset_next_step <=> (call.ret.step_type = LAST)

\* a step with no reset pending is handed an action other than the one
\* before and ends the episode
C20_Witness ==
  /\ call.op = "step" /\ ~call.before.reset_next_step
  /\ call.before.last_action = PyNum(0) /\ call.action = PyNum(1)
  /\ call.ret.step_type = LAST /\ reset_next_step
----------------------------------------------------------------------------
(* Properties of the helper constructors and predicates (SpecHelpers) *)

HelperOps == {"restart", "transition", "termination", "truncation"}

\* C5: restart(observation) yields marker FIRST, reward None, discount None
\* and the given observation; transition yields MID, termination and
\* truncation yield LAST, never FIRST, and pass reward and observation through.
C5_HelperMarkers ==
  /\ call.op = "restart" =>
       call.ret = TimeStep(FIRST, PyNone, PyNone, call.before.observation)
  /\ call.op \in {"transition", "termination", "truncation"} =>
       /\ call.ret.step_type = (IF call.op = "transition" THEN MID ELSE LAST)
       /\ call.ret.step_type # FIRST
       /\ call.ret.reward = call.before.reward
       /\ call.ret.observation = call.before.observation

C5_Witness ==
  /\ call.op = "restart"
  /\ call.before.observation = PyNum(MaxValue)
  /\ call.ret.step_type = FIRST

\* C6: termination always yields discount 0.0; truncation and transition
\* yield the discount given, and 1.0 when none is given.
C6_HelperDiscounts ==
  /\ call.op = "termination" => call.ret.discount = PyNum(0)
  /\ call.op \in {"transition", "truncation"} =>
       call.ret.discount =
         (IF call.before.discount = Omitted THEN PyNum(1) ELSE call.before.discount)

C6_Witness ==
  /\ call.op = "truncation"
  /\ call.before.discount = PyNum(MaxValue)
  /\ call.ret.discount = PyNum(MaxValue)

ExactlyOne(a, b, c) == (a /\ ~b /\ ~c) \/ (~a /\ b /\ ~c) \/ (~a /\ ~b /\ c)

\* C7: for each StepType value exactly one of first(), mid(), last() is true
\* (first for FIRST, mid for MID, last for LAST), and the predicates of a TimeStep
\* agree with those of its step_type.
C7_Predicates ==
  /\ \A s \in StepType :
       /\ ExactlyOne(StepType_first(s), StepType_mid(s), StepType_last(s))
       /\ StepType_first(s) <=> s = FIRST
       /\ StepType_mid(s) <=> s = MID
       /\ StepType_last(s) <=> s = LAST
  /\ call.op \in HelperOps =>
       /\ TimeStep_first(call.ret) <=> StepType_first(call.ret.step_type)
       /\ TimeStep_mid(call.ret) <=> StepType_mid(call.ret.step_type)
       /\ TimeStep_last(call.ret) <=> StepType_last(call.ret.step_type)

C7_Witness ==
  /\ call.op = "termination"
  /\ TimeStep_last(call.ret) /\ ~TimeStep_first(call.ret) /\ ~TimeStep_mid(call.ret)

----------------------------------------------------------------------------
(* Properties of the context manager (SpecWith) *)

\* C8: entering a with-block yields the environment itself; leaving it, normally
\* or by an exception, invokes close() exactly once, and an exception raised
\* in the block is not suppressed: it reaches the caller once close() has run.
C8_WithCloses ==
  /\ call.op = "__enter__" => call.ret = call.before /\ call.ret = Self("Subclass")
  /\ call.op = "__exit__" =>
       /\ Closes(call.hooks) = 1
       /\ call.propagated <=> call.raised

C8_Witness ==
  /\ call.op = "__exit__" /\ call.raised /\ call.propagated
  /\ with_pc = "after" /\ close_calls = 1 /\ Len(trace) > 0

----------------------------------------------------------------------------
(* Properties of the array specs (SpecArrays) *)

\* C9: for every successfully constructed spec s of any of the four variants,
\* s.validate(s.generate_value()) succeeds and returns a value equal to the
\* generated one.
C9_GenerateValidates ==
  (result # PyNone /\ result.op = "validate" /\ value = generate_value(spec)) =>
    (~result.raised /\ result.ret = value)

\* C10: every successfully constructed BoundedArray exposes minimum and maximum
\* (the bounds as stored, cast to the dtype) with minimum <= maximum elementwise
\* after broadcasting to shape, whatever dtype and bounds the constructor accepts.
C10_StoredBoundsOrdered ==
  (spec # PyNone /\ spec.cls = "BoundedArray") =>
    ~AnyGreater(np_broadcast_to(spec.minimum, spec.shape), spec.maximum)

\* C11: DiscreteArray(num_values, dtype) with a positive integer num_values and
\* an integer dtype, signed or unsigned, fails with the dtype-overflow error
\* exactly when num_values - 1 exceeds the largest value of the dtype, and
\* otherwise succeeds with maximum num_values - 1.
C11_DtypeOverflow ==
  (/\ result # PyNone /\ result.op = "__init__" /\ ctor.cls = "DiscreteArray"
   /\ ctor.num_values.py = "int" /\ ctor.num_values.val > 0
   /\ ctor.dtype \in IntegerDTypes) =>
    IF ctor.num_values.val - 1 > IntMax(ctor.dtype)
      THEN result.raised /\ result.error = "_DTYPE_OVERFLOW"
      ELSE ~result.raised /\ result.ret.maximum.data = <<ctor.num_values.val - 1>>

\* C26: BoundedArray(shape, dtype, minimum, maximum) fails, and yields no
\* spec, with the minimum-incompatible error when minimum does not broadcast
\* to shape (whether or not maximum does), otherwise with the
\* maximum-incompatible error when maximum does not, otherwise with the
\* bounds-order error when some element of the broadcast minimum exceeds that
\* of the broadcast maximum; otherwise it yields a spec.
C26_ConstructionErrors ==
  (result # PyNone /\ result.op = "__init__" /\ ctor.cls = "BoundedArray") =>
    IF ~Broadcastable(ctor.minimum.shape, ctor.shape)
      THEN /\ result.raised /\ result.error = "_MINIMUM_INCOMPATIBLE_WITH_SHAPE"
           /\ spec = PyNone
    ELSE IF ~Broadcastable(ctor.maximum.shape, ctor.shape)
      THEN /\ result.raised /\ result.error = "_MAXIMUM_INCOMPATIBLE_WITH_SHAPE"
           /\ spec = PyNone
    ELSE IF \E k \in 1..Size(ctor.shape) :
              np_broadcast_to(ctor.minimum, ctor.shape).data[k] >
              np_broadcast_to(ctor.maximum, ctor.shape).data[k]
      THEN /\ result.raised
           /\ result.error = "_MINIMUM_MUST_BE_LESS_THAN_OR_EQUAL_TO_MAXIMUM"
           /\ spec = PyNone
    ELSE ~result.raised /\ spec # PyNone /\ spec.cls = "BoundedArray"

\* neither bound broadcasts to the shape, and the minimum is the one reported
C26_Witness ==
  /\ result # PyNone /\ result.op = "__init__" /\ ctor.cls = "BoundedArray"
  /\ ~Broadcastable(ctor.minimum.shape, ctor.shape)
  /\ ~Broadcastable(ctor.maximum.shape, ctor.shape)
  /\ result.raised /\ result.error = "_MINIMUM_INCOMPATIBLE_WITH_SHAPE"
  /\ spec = PyNone

\* C27: DiscreteArray(num_values, dtype) fails with the invalid-num_values
\* error when num_values <= 0 or is not an integer, whatever the dtype;
\* otherwise with the non-integral-dtype error when dtype is not an integer
\* type; otherwise, if it fails, with the dtype-overflow error.  No spec is
\* produced when it fails.
C27_CheckOrder ==
  (result # PyNone /\ result.op = "__init__" /\ ctor.cls = "DiscreteArray") =>
    /\ IF ctor.num_values.val <= 0 \/ ctor.num_values.py # "int"
         THEN result.raised /\ result.error = "_NUM_VALUES_NOT_POSITIVE"
       ELSE IF ctor.dtype \notin IntegerDTypes
         THEN result.raised /\ result.error = "_DTYPE_NOT_INTEGRAL"
       ELSE result.raised => result.error = "_DTYPE_OVERFLOW"
    /\ result.raised => spec = PyNone

\* a num_values that is no integer, given with a dtype that is no integer
\* type, is reported for num_values
C27_Witness ==
  /\ result # PyNone /\ result.op = "__init__" /\ ctor.cls = "DiscreteArray"
  /\ ctor.num_values.py = "float" /\ ctor.dtype = "float64"
  /\ result.raised /\ result.error = "_NUM_VALUES_NOT_POSITIVE"
  /\ spec = PyNone

\* the third rule has been the first one violated
C27_OverflowWitness ==
  /\ result # PyNone /\ result.op = "__init__" /\ ctor.cls = "DiscreteArray"
  /\ ctor.num_values.py = "int" /\ ctor.num_values.val > 0
  /\ result.raised /\ result.error = "_DTYPE_OVERFLOW"

----------------------------------------------------------------------------
(* Properties of replace, __reduce__, __eq__ and validate (SpecOps, SpecEq) *)

\* C12: every constructed DiscreteArray, also one reached through a chain of
\* replace() calls, has shape (), minimum 0, maximum num_values - 1 and the
\* num_values given to its constructor, and its validate accepts a scalar of
\* its dtype exactly when the scalar lies in 0 .. num_values - 1.
C12_DiscreteInvariant ==
  (spec # PyNone /\ spec.cls = "DiscreteArray") =>
    /\ spec.shape = <<>>
    /\ spec.minimum.data = <<0>>
    /\ spec.maximum.data = <<spec.num_values - 1>>
    /\ spec.num_values = ctor.num_values.val
    /\ (result.op = "validate" /\ result.action.shape = <<>>
        /\ result.action.dtype = spec.dtype) =>
         (~result.raised <=> result.action.data[1] \in 0..(spec.num_values - 1))

\* an element of v lies below the minimum or above the maximum of s
OutOfBounds(s, v) ==
  \E k \in 1..Size(s.shape) :
    \/ v.data[k] < np_broadcast_to(s.minimum, s.shape).data[k]
    \/ v.data[k] > np_broadcast_to(s.maximum, s.shape).data[k]

\* C13: the validate of a BoundedArray accepts the value whose elements equal
\* its minimum and the value whose elements equal its maximum (the bounds are
\* inclusive, also when minimum = maximum), and rejects with the out-of-bounds
\* error every value of the right shape and dtype that has an element below
\* the minimum or above the maximum.
C13_InclusiveBounds ==
  (/\ result # PyNone /\ result.op = "validate" /\ "before" \in DOMAIN result
   /\ result.before.cls = "BoundedArray"
   /\ result.action.shape = result.before.shape
   /\ result.action.dtype = result.before.dtype) =>
    /\ result.action = np_broadcast_to(result.before.minimum, result.before.shape)
         => ~result.raised
    /\ result.action = np_broadcast_to(result.before.maximum, result.before.shape)
         => ~result.raised
    /\ OutOfBounds(result.before, result.action)
         => result.raised /\ result.error = "_OUT_OF_BOUNDS"

\* what attribute attr holds when the constructor is given x for it
Given(attr, x) == IF attr = "num_values" THEN x.val ELSE x

\* u == v for the values u and v of attribute attr (arrays compare by value)
AttrEqual(attr, u, v) ==
  IF attr \in {"minimum", "maximum"} THEN AllEqual(u, v) ELSE u = v

C15_ReduceRebuilds ==
  (result # PyNone /\ result.op = "__reduce__") =>
    /\ ~result.raised
    /\ eq(result.ret, result.before)
    /\ result.ret.name = result.before.name

\* the bounds of a and b, each broadcast to the shape of its spec, are equal
\* element by element
SameBounds(a, b) ==
  \A k \in 1..Size(a.shape) :
    /\ np_broadcast_to(a.minimum, a.shape).data[k] = np_broadcast_to(b.minimum, b.shape).data[k]
    /\ np_broadcast_to(a.maximum, a.shape).data[k] = np_broadcast_to(b.maximum, b.shape).data[k]

\* C16: two Array specs are equal if and only if they have the same shape and
\* the same dtype; two BoundedArray specs are equal if and only if in addition
\* their minimum and their maximum are equal element by element once broadcast
\* to the shape; the name never takes part in the comparison.
C16_Equality ==
  (result # PyNone /\ result.op = "__eq__") =>
    LET a == result.before
        b == result.action
    IN  /\ (~IsBounded(a) /\ ~IsBounded(b)) =>
             (result.ret <=> (a.shape = b.shape /\ a.dtype = b.dtype))
        /\ (IsBounded(a) /\ IsBounded(b)) =>
             (result.ret <=> (a.shape = b.shape /\ a.dtype = b.dtype /\ SameBounds(a, b)))
        /\ \A n \in Names, o \in Names :
             eq([a EXCEPT !.name = n], [b EXCEPT !.name = o]) = result.ret

\* a scalar bound equals the same bound listed per element, under different names
C16_Witness ==
  /\ result # PyNone /\ result.op = "__eq__" /\ result.ret = TRUE
  /\ result.before.cls = "BoundedArray" /\ result.action.cls = "BoundedArray"
  /\ result.before.maximum.shape = <<>> /\ result.action.maximum.shape = <<MaxDim>>
  /\ result.before.name # result.action.name

\* C17: Array.validate(value) fails with the shape-mismatch error when the
\* shape of the value differs from that of the spec, otherwise with the
\* dtype-mismatch error when the dtype differs, otherwise returns the value;
\* a value wrong in both reports the shape, and the spec is not modified.
C17_ArrayValidate ==
  (/\ result # PyNone /\ result.op = "validate" /\ "before" \in DOMAIN result
   /\ result.before.cls = "Array") =>
    /\ spec = result.before
    /\ IF result.action.shape # result.before.shape
         THEN result.raised /\ result.error = "_INVALID_SHAPE"
       ELSE IF result.action.dtype # result.before.dtype
         THEN result.raised /\ result.error = "_INVALID_DTYPE"
       ELSE ~result.raised /\ result.ret = result.action

\* a value of the wrong shape and the wrong dtype is reported for its shape
C17_Witness ==
  /\ result # PyNone /\ result.op = "validate" /\ "before" \in DOMAIN result
  /\ result.before.cls = "Array"
  /\ result.action.shape # result.before.shape
  /\ result.action.dtype # result.before.dtype
  /\ result.raised /\ result.error = "_INVALID_SHAPE"

\* C23: two StringArray specs that compare equal have the same string type:
\* a StringArray of str and one of bytes of the same shape are unequal.
C23_StringKinds ==
  (/\ result # PyNone /\ result.op = "__eq__"
   /\ result.before.cls = "StringArray" /\ result.action.cls = "StringArray"
   /\ result.ret) =>
    result.before.string_type = result.action.string_type

\* C24: a == b gives what b == a gives and a != b is its negation; a
\* BoundedArray and a plain Array are unequal in either operand order, and a
\* spec and a value that is no spec are unequal in either operand order.
C24_SymmetricEquality ==
  (result # PyNone /\ result.op \in {"==", "!="}) =>
    LET a == result.before
        b == result.action
    IN  /\ result.op = "==" => result.ret = eq(b, a)
        /\ result.op = "!=" => result.ret = ~eq(a, b) /\ result.ret = ne(b, a)
        /\ (IsBounded(a) /\ IsArray(b) /\ b.cls = "Array") => result.ret = (result.op = "!=")
        /\ (IsBounded(b) /\ IsArray(a) /\ a.cls = "Array") => result.ret = (result.op = "!=")
        /\ (~IsArray(a) \/ ~IsArray(b)) => result.ret = (result.op = "!=")

\* a plain Array on the left was compared with a BoundedArray of its shape and
\* dtype, and found unequal
C24_Witness ==
  /\ result # PyNone /\ result.op = "==" /\ result.ret = FALSE
  /\ IsArray(result.before) /\ result.before.cls = "Array"
  /\ IsArray(result.action) /\ result.action.cls = "BoundedArray"
  /\ result.before.shape = result.action.shape
  /\ result.before.dtype = result.action.dtype

\* C25: the validate of a BoundedArray fails with the shape error when the
\* shape of the value differs, otherwise with the dtype error when its dtype
\* differs, whatever its elements; a value of the right shape and dtype fails
\* with the out-of-bounds error exactly when an element is below its broadcast
\* minimum or above its broadcast maximum, and is returned otherwise.
C25_BoundedValidateOrder ==
  (/\ result # PyNone /\ result.op = "validate" /\ "before" \in DOMAIN result
   /\ IsBounded(result.before)) =>
    IF result.action.shape # result.before.shape
      THEN result.raised /\ result.error = "_INVALID_SHAPE"
    ELSE IF result.action.dtype # result.before.dtype
      THEN result.raised /\ result.error = "_INVALID_DTYPE"
    ELSE IF OutOfBounds(result.before, result.action)
      THEN result.raised /\ result.error = "_OUT_OF_BOUNDS"
    ELSE ~result.raised /\ result.ret = result.action

\* a value of the right shape and the wrong dtype, with an element out of
\* bounds, is reported for its dtype
C25_Witness ==
  /\ result # PyNone /\ result.op = "validate" /\ "before" \in DOMAIN result
  /\ result.before.cls = "BoundedArray"
  /\ result.action.shape = result.before.shape
  /\ result.action.dtype # result.before.dtype
  /\ OutOfBounds(result.before, result.action)
  /\ result.raised /\ result.error = "_INVALID_DTYPE"

\* the replace just made failed with error e: no spec came back and the spec
\* it was called on is as before
ReplaceFails(e) ==
  /\ result.raised /\ result.error = e /\ result.ret = PyNone
  /\ spec = result.before

\* C30: replace(attr=x) runs the constructor's checks on the attributes of the
\* spec merged with the override.  On a BoundedArray whose merged bounds do
\* not broadcast to the merged shape, or have a minimum above the maximum,
\* and on a DiscreteArray whose merged num_values is not positive or whose
\* merged dtype is not integral or too narrow for num_values - 1, replace
\* fails with the error of that rule, returns no spec and leaves the spec as
\* it was.
C30_ReplaceChecks ==
  (/\ result # PyNone /\ result.op = "replace"
   /\ result.action[1] \in DOMAIN _get_constructor_kwargs(result.before) \ {"cls"}) =>
    LET s == result.before
        merged == [_get_constructor_kwargs(s) EXCEPT ![result.action[1]] = result.action[2]]
    IN  /\ s.cls = "BoundedArray" =>
             IF ~Broadcastable(merged.minimum.shape, merged.shape)
               THEN ReplaceFails("_MINIMUM_INCOMPATIBLE_WITH_SHAPE")
             ELSE IF ~Broadcastable(merged.maximum.shape, merged.shape)
               THEN ReplaceFails("_MAXIMUM_INCOMPATIBLE_WITH_SHAPE")
             ELSE (\E k \in 1..Size(merged.shape) :
                     np_broadcast_to(merged.minimum, merged.shape).data[k] >
                     np_broadcast_to(merged.maximum, merged.shape).data[k])
                  => ReplaceFails("_MINIMUM_MUST_BE_LESS_THAN_OR_EQUAL_TO_MAXIMUM")
        /\ s.cls = "DiscreteArray" =>
             IF merged.num_values.val <= 0
               THEN ReplaceFails("_NUM_VALUES_NOT_POSITIVE")
             ELSE IF merged.dtype \notin IntegerDTypes
               THEN ReplaceFails("_DTYPE_NOT_INTEGRAL")
             ELSE merged.num_values.val - 1 > IntMax(merged.dtype)
                  => ReplaceFails("_DTYPE_OVERFLOW")

----------------------------------------------------------------------------
(* Properties of the accessors (SpecAccessors) *)

AccessorOps == {"reward_spec", "discount_spec", "observation_spec", "action_spec", "close"}

\* C18: reward_spec(), discount_spec(), observation_spec(), action_spec() and
\* close() leave the episode state alone: the object after such a call is the
\* object before it, so wherever such calls are inserted among reset() and
\* step() calls the reset-pending flag stays what the reset/step calls alone
\* made it (set exactly when there was none yet or the last one returned
\* LAST); and every call of the default reward_spec() and discount_spec()
\* returns an equal spec.
C18_AccessorsPure ==
  /\ call.op \in AccessorOps => Self("Subclass") = call.before
  /\ reset_next_step <=> (trace = <<>> \/ trace[Len(trace)].step_type = LAST)
  /\ call.op = "reward_spec" =>
       /\ call.ret.cls = "Array"
       /\ eq(call.ret, Array_init("Array", <<>>, "float64", PyNone))
       /\ call.ret.name = Str("reward")
  /\ call.op = "discount_spec" =>
       /\ call.ret.cls = "BoundedArray"
       /\ eq(call.ret, BoundedArray_init("BoundedArray", <<>>, "float64",
                                         Scalar(0), Scalar(1), PyNone).ret)
       /\ call.ret.name = Str("discount")

\* a spec is read mid-episode, after the environment was closed
C18_Witness ==
  /\ call.op = "discount_spec" /\ close_calls > 0
  /\ Len(trace) >= 2 /\ trace[Len(trace)].step_type = MID /\ ~reset_next_step

----------------------------------------------------------------------------
(* Properties of the test harness (SpecHarness) *)

\* every TimeStep of the MockEnvironment passes assertValidStep, and reset()
\* returns a FIRST step
WellFormedMock ==
  /\ \A k \in 1..Len(mock.timesteps) : ~assertValidStep(mock.timesteps[k]).raised
  /\ mock.timesteps[1].step_type = FIRST

\* some step() so far returned FIRST when the marker returned before it was
\* not LAST, or something other than FIRST when it was LAST
OutOfOrder ==
  \E k \in 2..Len(trace) :
    /\ trace[k].op = "step"
    /\ \/ trace[k].step_type = FIRST /\ trace[k - 1].step_type # LAST
       \/ trace[k].step_type # FIRST /\ trace[k - 1].step_type = LAST

\* C21: on a MockEnvironment whose TimeSteps are all valid and whose reset()
\* returns FIRST, test_longer_action_sequence has failed exactly when some
\* step() result was out of order, and then with an AssertionError; a run that
\* met no LAST step and no step out of order goes through both rounds and
\* returns.
C21_FailsIffOutOfOrder ==
  WellFormedMock =>
    /\ (test.pc = "failed") = OutOfOrder
    /\ test.pc = "failed" => test.outcome = Raised("AssertionError")
    /\ test.pc = "done" => test.outcome = Returned(PyNone)

\* the harness has failed on [FIRST, MID, LAST, MID], at the MID after LAST
C21_Witness ==
  /\ mock.timesteps = <<Mock_FIRST, Mock_MID, Mock_LAST, Mock_MID>>
  /\ test.pc = "failed" /\ OutOfOrder
  /\ trace[Len(trace)].step_type = MID /\ trace[Len(trace) - 1].step_type = LAST

\* the harness has returned from a run that never met a LAST step
C21_NoLastWitness ==
  /\ WellFormedMock /\ test.pc = "done" /\ ~test.encountered_last_step

\* value conforms to spec s: a leaf that s.validate accepts
Conforms(v, s) == SameStructure(v) /\ ~validate(s, np_asarray(v)).raised

\* C22: assertValidStep accepts the TimeStep it was given exactly when the
\* step_type is a StepType member, a FIRST step has reward None and discount
\* None, a MID or LAST step has a reward conforming to reward_spec() and a
\* discount conforming to discount_spec(), and the observation conforms to
\* observation_spec().
C22_ValidStep ==
  (test # PyNone /\ test.checked # PyNone) =>
    (~test.checked.raised) =
      (/\ test.step.step_type \in StepType
       /\ test.step.step_type = FIRST =>
            test.step.reward = PyNone /\ test.step.discount = PyNone
       /\ test.step.step_type \in {MID, LAST} =>
            /\ Conforms(test.step.reward, REWARD_SPEC)
            /\ Conforms(test.step.discount, DISCOUNT_SPEC)
       /\ Conforms(test.step.observation, OBSERVATION_SPEC))

\* reset() returned FIRST with a reward of 1.0 and assertValidStep rejected it
C22_Witness ==
  /\ test # PyNone /\ test.checked # PyNone
  /\ test.step = [Mock_FIRST EXCEPT !.reward = PyFloat(1)]
  /\ test.checked = Raised("AssertionError")
  /\ test.pc = "failed"

----------------------------------------------------------------------------
(* Properties of the wrapper when hooks raise (SpecRaising) *)

\* before the call just made, some reset or step returned FIRST (a _reset
\* that succeeded) and no call since returned LAST
EpisodeOpen ==
  \E j \in 1..(Len(trace) - 1) :
    /\ trace[j].step_type = FIRST
    /\ \A k \in (j + 1)..(Len(trace) - 1) : trace[k].step_type # LAST

\* C28: _step is invoked only when an earlier _reset has returned and no LAST
\* TimeStep has been returned since; after a reset(), or a step() that went to
\* reset, whose _reset() raised, a reset is still pending, so that the next
\* step() goes to reset again.
C28_StepNeedsReset ==
  /\ (call.op \in {"reset", "step"} /\ "_step" \in {call.hooks[k] : k \in 1..Len(call.hooks)})
       => EpisodeOpen
  /\ (call.op \in {"reset", "step"} /\ call.raised /\ call.hooks = <<"_reset">>) =>
       /\ reset_next_step
       /\ \A a \in Actions, out \in StepOutcomes :
            step(Self("Subclass"), a, out).hooks = <<"_reset">>

\* C29: when _step raises in a step() made with the flag clear, step() raises
\* that exception, the flag is still clear, and the next step() goes to _step,
\* not to reset.
C29_StepRaises ==
  (call.op = "step" /\ ~call.before.reset_next_step /\ call.hooks = <<"_step">>
   /\ IsException(_step(call.before, call.action, PyNone).ret)) =>
    /\ call.raised /\ call.propagated
    /\ call.ret = _step(call.before, call.action, PyNone).ret
    /\ ~reset_next_step
    /\ \A c \in HookClasses, a \in Actions, out \in StepOutcomes :
         step(Self(c), a, out).hooks = <<"_step">>

\* _step has raised in the second step() of an episode, after a MID step
C29_Witness ==
  /\ call.op = "step" /\ call.raised /\ call.ret = Exception("_step")
  /\ ~call.before.reset_next_step /\ ~reset_next_step
  /\ Len(trace) >= 3 /\ trace[Len(trace) - 1].step_type = MID

====
